---- MODULE Spec2Model ----
(***************************************************************************)
(* STEPS: serial-transfer evolution simulator.                             *)
(*                                                                         *)
(* Model of the simulation driver (SimulationHandler), the lineage store   *)
(* (LineagesData), the mutation tracker (MutationsData, update_sizes), the *)
(* growth / bottleneck / mutation mechanics and the command line loop that *)
(* polls the driver and records mutations.                                 *)
(*                                                                         *)
(* Numbers.  Population sizes are f64 in the program.  Here a size is a    *)
(* fixed-point integer counted in units of 1/One individual, so "N = 1.0"  *)
(* is N = One.  Expected mutation counts and cutoffs live on an integer    *)
(* grid on which one individual's window is U grid points wide.  exp2 and  *)
(* log2 are the piecewise-linear interpolations between powers of two      *)
(* (exact whenever all fitnesses are equal).                               *)
(*                                                                         *)
(* Randomness.  Every draw from the generator is a nondeterministic choice *)
(* over the support of its distribution; the values drawn during one call  *)
(* are collected, in draw order, in the field "draws" of the outcome.  The *)
(* iteration order of the hash map of tracked mutations is unspecified and *)
(* is a nondeterministic choice as well.                                   *)
(***************************************************************************)
EXTENDS Naturals, Integers, Sequences, FiniteSets, TLC

VARIABLES
    cfg,          \* SimConfig the driver was built with
    replicate,    \* SimulationHandler.replicate
    transfer,     \* SimulationHandler.transfer
    lineages,     \* SimulationHandler.lineages (LineagesData)
    mutations,    \* SimulationHandler.mutations (Option<MutationsData>)
    aborted,      \* the process died in a panic
    result,       \* what the last call of next_state returned
    history,      \* the snapshots returned so far: <<replicate, transfer, end_of_replicate>>
    recorded,     \* mutation records written by the output loop: <<replicate, id>>
    pruned_earlier, \* ids pruned in earlier steps of the current replicate
    ancestry,     \* id |-> background_id of the mutations registered in the current replicate
    twin,         \* a second driver built from the same configuration and seed
    cli,          \* the command line process around the driver (None: the driver used as a library)
    calls         \* the calls of the mechanics made by the last step, when they are traced

vars == <<cfg, replicate, transfer, lineages, mutations, aborted, result,
          history, recorded, pruned_earlier, ancestry, twin, cli, calls>>

----------------------------------------------------------------------------
(* Bounds of the model *)

MaxReplicates == 2
MaxTransfers == 2
MaxMarkers == 2
MaxK == 2
MaxMutationEvents == 4
MaxTwinSnapshots == 3

\* The fixed-point representation of 1.0 individual
One == 2

(* Values the configuration options range over *)
DilutionFactors == {2, 4}
MaxPopSizes == {4}
MutationRates == {<<0, 0, 0>>, <<1, 1, 0>>, <<0, 0, 1>>}
EpistasisStrengths == {1}
MutationSizes == {1}

\* Option::None
None == [is_some |-> FALSE]

\* Option::Some
Some(v) == [is_some |-> TRUE, value |-> v]

----------------------------------------------------------------------------
(* Arithmetic helpers *)

RECURSIVE Pow2(_)
Pow2(n) == IF n = 0 THEN 1 ELSE 2 * Pow2(n - 1)

\* f64::round of a / b for a >= 0, b > 0: half away from zero
RoundDiv(a, b) == (2 * a + b) \div (2 * b)

Max(a, b) == IF a >= b THEN a ELSE b
Min(a, b) == IF a <= b THEN a ELSE b

\* f64::clamp
Clamp(x, lo, hi) == IF x < lo THEN lo ELSE IF x > hi THEN hi ELSE x

\* floor(log2(a / b)) for a >= b > 0
RECURSIVE FloorLog2(_, _)
FloorLog2(a, b) == IF 2 * b <= a THEN 1 + FloorLog2(a, 2 * b) ELSE 0

RECURSIVE SeqSum(_)
SeqSum(s) == IF s = <<>> THEN 0 ELSE Head(s) + SeqSum(Tail(s))

\* All orders in which the elements of a finite set can be enumerated
Orders(S) == {f \in [1..Cardinality(S) -> S] : \A i, j \in DOMAIN f : i # j => f[i] # f[j]}

\* All sequences of length n over S
Tuples(n, S) == [1..n -> S]

RECURSIVE InsertSorted(_, _)
InsertSorted(x, s) ==
    IF s = <<>> THEN <<x>>
    ELSE IF x <= Head(s) THEN <<x>> \o s
    ELSE <<Head(s)>> \o InsertSorted(x, Tail(s))

\* cutoffs.sort_unstable_by(partial_cmp)
RECURSIVE SortAscending(_)
SortAscending(s) == IF s = <<>> THEN <<>> ELSE InsertSorted(Head(s), SortAscending(Tail(s)))

----------------------------------------------------------------------------
(* Summaries: summarize.rs *)

NColumn(L) == [i \in DOMAIN L.rows |-> L.rows[i].N]
NWColumn(L) == [i \in DOMAIN L.rows |-> L.rows[i].N * L.rows[i].W]

sum_N(L) == SeqSum(NColumn(L))
weighted_sum_W(L) == SeqSum(NWColumn(L))

----------------------------------------------------------------------------
(* InternalSimConfig: sim/mod.rs *)

total_mutation_rate(c) ==
    c.beneficial_mutation_rate + c.neutral_mutation_rate + c.deleterious_mutation_rate

\* phase_1_doublings_required returning floor(log2 D) whatever the fractional part
phase_1_doublings_required_AlwaysFloor(c) == FloorLog2(c.dilution_factor, 1)

\* phase_1_doublings_required: floor(log2 D) - 1 when fract(log2 D) < 0.5, else floor(log2 D).
\* fract(log2 D) < 0.5  iff  D < 2^k * sqrt(2)  iff  D^2 < 2^(2k+1), with k = floor(log2 D).
phase_1_doublings_required(c) ==
    LET k == FloorLog2(c.dilution_factor, 1)
    IN  IF c.dilution_factor * c.dilution_factor < Pow2(2 * k + 1) THEN k - 1 ELSE k

\* The assertion phase_1_doublings_required starts with
phase_1_doublings_assert(c) == c.dilution_factor >= 2

\* WeightedIndex::new(weights) is an error when a weight is negative or all weights are zero
WeightedIndex_new_is_err(weights) ==
    \/ \E i \in DOMAIN weights : weights[i] < 0
    \/ SeqSum(weights) = 0

\* InternalSimConfig::new without the assertion on the dilution factor
InternalSimConfig_new_NoAssert(c) ==
    [panic |-> /\ total_mutation_rate(c) > 0
               /\ WeightedIndex_new_is_err(<<c.beneficial_mutation_rate,
                                              c.neutral_mutation_rate,
                                              c.deleterious_mutation_rate>>)]

\* InternalSimConfig::new: panics when the assertion of phase_1_doublings_required fails
\* or when the unwrap of WeightedIndex::new, called only for a positive total rate, fails
InternalSimConfig_new(c) ==
    [panic |-> \/ ~phase_1_doublings_assert(c)
               \/ /\ total_mutation_rate(c) > 0
                  /\ WeightedIndex_new_is_err(<<c.beneficial_mutation_rate,
                                                 c.neutral_mutation_rate,
                                                 c.deleterious_mutation_rate>>)]

\* The mutation types WeightedIndex can return: those with a positive weight
MutationTypes(c) ==
    IF total_mutation_rate(c) > 0
    THEN {ty \in {"Beneficial", "Neutral", "Deleterious"} :
            \/ ty = "Beneficial" /\ c.beneficial_mutation_rate > 0
            \/ ty = "Neutral" /\ c.neutral_mutation_rate > 0
            \/ ty = "Deleterious" /\ c.deleterious_mutation_rate > 0}
    ELSE {}

----------------------------------------------------------------------------
(* Mutation tracker: MutationsData, sim/types.rs *)

\* MutationsData::default / MutationsData::new
MutationsData_new == [is_some |-> TRUE, muts |-> <<>>, pruned_muts |-> <<>>, on_transfer |-> 0]

set_transfer(m, t) == [m EXCEPT !.on_transfer = t]

\* MutationsData::register
register(m, child, parent, mutation_order) ==
    LET mutation == [id |-> child.id,
                     background_id |-> parent.id,
                     delta_W |-> (child.W \div parent.W) - 1,
                     delta_U |-> 0,
                     first_transfer |-> m.on_transfer,
                     N |-> <<>>,
                     order |-> mutation_order,
                     just_updated |-> FALSE]
    IN  [m EXCEPT !.muts = (child.id :> mutation) @@ m.muts]

----------------------------------------------------------------------------
(* f64 arithmetic of the founder size: round to nearest, ties to even, 53 bits.  A float   *)
(* is [mant, exp] with value mant * 2^exp; mant is an integer written as a little-endian   *)
(* sequence of limbs in 0..1023.                                                           *)

RECURSIVE Trim(_)
Trim(b) == IF b # <<>> /\ b[Len(b)] = 0 THEN Trim(SubSeq(b, 1, Len(b) - 1)) ELSE b

RECURSIVE LimbsOf(_)
LimbsOf(n) == IF n = 0 THEN <<>> ELSE <<n % 1024>> \o LimbsOf(n \div 1024)

RECURSIVE LimbsToInt(_)
LimbsToInt(b) == IF b = <<>> THEN 0 ELSE b[1] + 1024 * LimbsToInt(Tail(b))

\* Bit k (from 1, the lowest) of b
Bit(b, k) ==
    IF k >= 1 /\ (k - 1) \div 10 + 1 <= Len(b)
    THEN (b[(k - 1) \div 10 + 1] \div Pow2((k - 1) % 10)) % 2
    ELSE 0

\* The number of bits of b (trimmed)
BitLen(b) ==
    IF b = <<>> THEN 0
    ELSE 10 * (Len(b) - 1) + CHOOSE k \in 1..10 : Pow2(k - 1) <= b[Len(b)] /\ b[Len(b)] < Pow2(k)

\* The ten bits of b from bit `from` on, as a limb
RECURSIVE LimbAt(_, _, _)
LimbAt(b, from, t) == IF t = 10 THEN 0 ELSE Bit(b, from + t) * Pow2(t) + LimbAt(b, from, t + 1)

\* b shifted right by s bits (the bits shifted out are dropped)
ShiftRight(b, s) == Trim([j \in 1..Len(b) |-> LimbAt(b, s + 10 * (j - 1) + 1, 0)])

\* a + b, from limb i on with the carry so far
RECURSIVE AddLimbs(_, _, _, _)
AddLimbs(a, b, i, carry) ==
    IF i > Len(a) /\ i > Len(b) THEN LimbsOf(carry)
    ELSE LET t == carry + (IF i <= Len(a) THEN a[i] ELSE 0) + (IF i <= Len(b) THEN b[i] ELSE 0)
         IN  <<t % 1024>> \o AddLimbs(a, b, i + 1, t \div 1024)

\* b * n for n < 2^20, from limb i on with the carry so far
RECURSIVE MulSmall(_, _, _, _)
MulSmall(b, n, i, carry) ==
    IF i > Len(b) THEN LimbsOf(carry)
    ELSE <<(carry + b[i] * n) % 1024>> \o MulSmall(b, n, i + 1, (carry + b[i] * n) \div 1024)

\* b * n for any n
RECURSIVE MulInt(_, _)
MulInt(b, n) ==
    IF n < 1024 * 1024 THEN Trim(MulSmall(b, n, 1, 0))
    ELSE Trim(AddLimbs(MulSmall(b, n % 1024, 1, 0), <<0>> \o MulInt(b, n \div 1024), 1, 0))

\* b divided by d < 2^16, from limb i down: [q, rem]
RECURSIVE DivSmall(_, _, _, _, _)
DivSmall(b, d, i, rem, q) ==
    IF i = 0 THEN [q |-> Trim(q), rem |-> rem]
    ELSE LET r2 == rem * 1024 + b[i]
         IN  DivSmall(b, d, i - 1, r2 % d, <<r2 \div d>> \o q)

\* Round an exact significand (with a sticky flag for what lies below it) to 53 bits
Round53(b, sticky) ==
    IF BitLen(b) <= 53 THEN [mant |-> b, shift |-> 0]
    ELSE LET s == BitLen(b) - 53
             q == ShiftRight(b, s)
             st == sticky \/ \E k \in 1..(s - 1) : Bit(b, k) = 1
         IN  [mant |-> IF Bit(b, s) = 1 /\ (st \/ Bit(q, 1) = 1)
                       THEN Trim(AddLimbs(q, <<1>>, 1, 0)) ELSE q,
              shift |-> s]

Zeros(n) == [k \in 1..n |-> 0]

\* a / d for a float a and an integer d < 2^16
f64_div(a, d) ==
    LET pad == 8 - Len(a.mant)
        Q == DivSmall(Zeros(pad) \o a.mant, d, 8, 0, <<>>)
        r == Round53(Q.q, Q.rem # 0)
    IN  [mant |-> r.mant, exp |-> a.exp - 10 * pad + r.shift]

\* a * n for a float a and an integer n
f64_mul(a, n) ==
    LET r == Round53(MulInt(a.mant, n), FALSE)
    IN  [mant |-> r.mant, exp |-> a.exp + r.shift]

\* f64::recip of an integer
f64_recip(d) == f64_div([mant |-> <<1>>, exp |-> 0], d)

\* f64::round (half away from zero) of a float that is not negative, as an integer
f64_round(a) ==
    IF a.exp >= 0 THEN LimbsToInt(a.mant) * Pow2(a.exp)
    ELSE LimbsToInt(ShiftRight(a.mant, -a.exp)) + Bit(a.mant, -a.exp)

\* InternalSimConfig::dilution_coefficient
dilution_coefficient(c) == f64_recip(c.dilution_factor)

----------------------------------------------------------------------------
(* Lineage store: LineagesData, sim/types.rs *)

LineagesData_default == [rows |-> <<>>, unique_id_counter |-> 0]

\* A successor store whose id counter starts again at 0
successor_ResetsCounter(old) == LineagesData_default

\* LineagesData::successor
successor(old) == [rows |-> <<>>, unique_id_counter |-> old.unique_id_counter]

\* LineagesData::push
push(L, data) == [L EXCEPT !.rows = Append(L.rows, data)]

\* push_child counting every mutant as one more mutation, whatever its order
push_child_CountsOne(w, child, parent, mutation_order) ==
    LET id == w.lineages.unique_id_counter + 1
        c == [child EXCEPT !.parent_id = parent.id,
                           !.id = id,
                           !.accumulated_muts = parent.accumulated_muts + 1]
    IN  [w EXCEPT !.lineages = push([w.lineages EXCEPT !.unique_id_counter = id], c),
                  !.mutations = IF w.mutations.is_some
                                THEN register(w.mutations, c, parent, mutation_order)
                                ELSE None]

\* LineagesData::push_child, on the pair (lineages, mutations)
push_child(w, child, parent, mutation_order) ==
    LET id == w.lineages.unique_id_counter + 1
        c == [child EXCEPT !.parent_id = parent.id,
                           !.id = id,
                           !.accumulated_muts = parent.accumulated_muts + mutation_order]
    IN  [w EXCEPT !.lineages = push([w.lineages EXCEPT !.unique_id_counter = id], c),
                  !.mutations = IF w.mutations.is_some
                                THEN register(w.mutations, c, parent, mutation_order)
                                ELSE None]

\* LineagesData::for_sim_config, on the pair (lineages, mutations)
RECURSIVE PushMarkers(_, _, _, _, _)
PushMarkers(w, ancestor, N, m, markers) ==
    IF m > markers THEN w
    ELSE PushMarkers(push_child(w, [ancestor EXCEPT !.N = N, !.marker = m], ancestor, 1),
                     ancestor, N, m + 1, markers)

for_sim_config(c, muts) ==
    LET ancestor == [N |-> 0, W |-> 1, U |-> total_mutation_rate(c),
                     lambda |-> 1 \div c.initial_beneficial_mutation_size, id |-> 0, parent_id |-> 0, marker |-> 0,
                     accumulated_muts |-> 0]
        \* (max_pop_size * dilution_coefficient / markers as f64).round()
        N == f64_round(f64_div(f64_mul(dilution_coefficient(c), c.max_pop_size), c.markers)) * One
    IN  PushMarkers([lineages |-> LineagesData_default, mutations |-> muts],
                    ancestor, N, 1, c.markers)

----------------------------------------------------------------------------
(* Sequencing: update_sizes, sim/sequencing.rs *)

\* The walk replacing the size of a mutation already updated instead of adding to it
RECURSIVE WalkChain_NoAccumulate(_, _, _)
WalkChain_NoAccumulate(map, id, N) ==
    IF id \in DOMAIN map
    THEN LET mutation == map[id]
             updated == IF mutation.just_updated
                        THEN [mutation EXCEPT !.N[Len(mutation.N)] = N]
                        ELSE [mutation EXCEPT !.N = Append(@, N), !.just_updated = TRUE]
         IN  WalkChain_NoAccumulate([map EXCEPT ![id] = updated], mutation.background_id, N)
    ELSE map

\* The walk adding the size of a lineage to its own mutation only: the mutations of its
\* background are marked as updated without it
RECURSIVE WalkChain_OwnSizeOnly(_, _, _)
WalkChain_OwnSizeOnly(map, id, N) ==
    IF id \in DOMAIN map
    THEN LET mutation == map[id]
             updated == IF mutation.just_updated
                        THEN [mutation EXCEPT !.N[Len(mutation.N)] = @ + N]
                        ELSE [mutation EXCEPT !.N = Append(@, N), !.just_updated = TRUE]
         IN  WalkChain_OwnSizeOnly([map EXCEPT ![id] = updated], mutation.background_id, 0)
    ELSE map

\* The walk over background ids for one lineage: "while let Some(mutation) = map.get_mut(&id)"
RECURSIVE WalkChain(_, _, _)
WalkChain(map, id, N) ==
    IF id \in DOMAIN map
    THEN LET mutation == map[id]
             updated == IF mutation.just_updated
                        THEN [mutation EXCEPT !.N[Len(mutation.N)] = @ + N]
                        ELSE [mutation EXCEPT !.N = Append(@, N), !.just_updated = TRUE]
         IN  WalkChain([map EXCEPT ![id] = updated], mutation.background_id, N)
    ELSE map

RECURSIVE WalkLineages(_, _, _)
WalkLineages(map, rows, i) ==
    IF i > Len(rows) THEN map
    ELSE WalkLineages(WalkChain(map, rows[i].id, rows[i].N), rows, i + 1)

\* The closure pruning extinct mutations only
prunable_ExtinctOnly(m, total) == ~m.just_updated

\* The closure "prunable": extinct, or fixed (|N.last - sum_N| < EPSILON)
prunable(m, total) == ~m.just_updated \/ m.N[Len(m.N)] = total

\* update_sizes copying the prunable mutations to pruned_muts without removing them
update_sizes_KeepsPruned(sequencing_data, population_data) ==
    LET total == sum_N(population_data)
        cleared == [id \in DOMAIN sequencing_data.muts |->
                        [sequencing_data.muts[id] EXCEPT !.just_updated = FALSE]]
        map == WalkLineages(cleared, population_data.rows, 1)
        gone == {id \in DOMAIN map : prunable(map[id], total)}
    IN  {[sequencing_data EXCEPT
              !.muts = map,
              !.pruned_muts = @ \o [k \in DOMAIN ord |-> map[ord[k]]]] : ord \in Orders(gone)}

\* update_sizes: the set of results, one per iteration order of the hash map
update_sizes(sequencing_data, population_data) ==
    LET total == sum_N(population_data)
        cleared == [id \in DOMAIN sequencing_data.muts |->
                        [sequencing_data.muts[id] EXCEPT !.just_updated = FALSE]]
        map == WalkLineages(cleared, population_data.rows, 1)
        gone == {id \in DOMAIN map : prunable(map[id], total)}
    IN  {[sequencing_data EXCEPT
              !.muts = [id \in DOMAIN map \ gone |-> map[id]],
              !.pruned_muts = @ \o [k \in DOMAIN ord |-> map[ord[k]]]] : ord \in Orders(gone)}

----------------------------------------------------------------------------
(* Kernels: sim/kernels.rs *)

\* N * exp2(W * num / den), exp2 interpolated linearly between powers of two
Grow(N, W, num, den) ==
    LET x == W * num
    IN  (N * Pow2(x \div den) * (den + (x % den))) \div den

\* grow_lineages_inplace with delta_t = num / den
grow_lineages_inplace(L, num, den) ==
    [L EXCEPT !.rows = [i \in DOMAIN L.rows |->
                            [L.rows[i] EXCEPT !.N = Grow(L.rows[i].N, L.rows[i].W, num, den)]]]

old_N_to_delta_N(L, old_N) == [i \in DOMAIN old_N |-> L.rows[i].N - old_N[i]]

\* u * n * 2.0, on the cutoff grid
expected_mutation_counts(L, eligible_N) ==
    [i \in DOMAIN L.rows |-> (L.rows[i].U * eligible_N[i] * 2) \div One]

----------------------------------------------------------------------------
(* Distributions: sim/distr.rs *)

\* poisson returning any count for a mean of 0 as well
PoissonSupport_AnyMean(lambda) == 0..MaxK

\* The values poisson(lambda) can return; poisson(0) is always 0
PoissonSupport(lambda) == IF lambda = 0 THEN {0} ELSE 0..MaxK

----------------------------------------------------------------------------
(* Mechanics: sim/mechanics.rs *)

\* Append the values just drawn to the draws of a work state (kept only for a driver
\* whose draws are compared with those of its twin)
Drew(w, values) == IF w.logging THEN [w EXCEPT !.draws = @ \o values] ELSE w

\* Append the record of a call to the calls of a work state (kept as the draws are);
\* a record holds, as "at", the number of values drawn in the step before the call
Called(w, record) == IF w.logging THEN [w EXCEPT !.calls = Append(@, record)] ELSE w

\* Index of a mutation type in InternalSimConfig::MUTATION_TYPES (the value drawn)
TypeIndex(ty) == CASE ty = "Beneficial" -> 0 [] ty = "Neutral" -> 1 [] ty = "Deleterious" -> 2

\* A beneficial mutation dividing the fitness and lambda instead of multiplying them
apply_beneficial_mutation_Divides(lineage, c, size) ==
    [lineage EXCEPT !.W = @ \div (1 + size),
                    !.lambda = @ \div (1 + c.diminishing_returns_epistasis_strength * size)]

\* apply_beneficial_mutation: W *= 1 + size; lambda *= 1 + g * size
apply_beneficial_mutation(lineage, c, size) ==
    [lineage EXCEPT !.W = @ * (1 + size),
                    !.lambda = @ * (1 + c.diminishing_returns_epistasis_strength * size)]

\* The loop of new_mutant applying a deleterious mutation as if it were neutral
RECURSIVE MutateTimes_DeleteriousNeutral(_, _, _)
MutateTimes_DeleteriousNeutral(o, k, c) ==
    IF k = 0 \/ o.panic THEN {o}
    ELSE UNION {
           CASE ty = "Beneficial" ->
                  UNION {MutateTimes_DeleteriousNeutral(
                             Drew([o EXCEPT !.mutant = apply_beneficial_mutation(@, c, size)],
                                  <<TypeIndex(ty), size>>),
                             k - 1, c) : size \in MutationSizes}
             [] ty = "Neutral" ->
                  MutateTimes_DeleteriousNeutral(Drew(o, <<TypeIndex(ty)>>), k - 1, c)
             [] ty = "Deleterious" ->
                  MutateTimes_DeleteriousNeutral(Drew(o, <<TypeIndex(ty)>>), k - 1, c)
           : ty \in MutationTypes(c)}

\* The loop "for _ in 0..order" of new_mutant, on outcomes [mutant, draws, panic]
RECURSIVE MutateTimes(_, _, _)
MutateTimes(o, k, c) ==
    IF k = 0 \/ o.panic THEN {o}
    ELSE UNION {
           CASE ty = "Beneficial" ->
                  UNION {MutateTimes(Drew([o EXCEPT !.mutant = apply_beneficial_mutation(@, c, size)],
                                          <<TypeIndex(ty), size>>),
                                     k - 1, c) : size \in MutationSizes}
             [] ty = "Neutral" ->
                  MutateTimes(Drew(o, <<TypeIndex(ty)>>), k - 1, c)
             [] ty = "Deleterious" ->
                  \* apply_deleterious_mutation: todo!()
                  {Drew([o EXCEPT !.panic = TRUE], <<TypeIndex(ty)>>)}
           : ty \in MutationTypes(c)}

\* new_mutant leaving the mutant the population size of its parent
new_mutant_KeepsParentN(parent, order, c, logging) ==
    MutateTimes([mutant |-> parent, draws |-> <<>>, panic |-> FALSE, logging |-> logging],
                order, c)

\* new_mutant building the mutant with the first marker instead of its parent's
new_mutant_FirstMarker(parent, order, c, logging) ==
    MutateTimes([mutant |-> [parent EXCEPT !.N = One, !.marker = 1], draws |-> <<>>,
                 panic |-> FALSE, logging |-> logging], order, c)

new_mutant(parent, order, c, logging) ==
    MutateTimes([mutant |-> [parent EXCEPT !.N = One], draws |-> <<>>, panic |-> FALSE,
                 logging |-> logging], order, c)

\* f64::from_bits(x.to_bits() + 1): the next point of the grid
next_float(x) == x + 1

\* The window of an individual taken to be the whole interval of its lineage
individual_max_cutoff_WholeLineage(cutoff, prev_cumsum, U, cumsum) == cumsum

\* Upper bound (exclusive) of the window of the individual the cutoff falls in
individual_max_cutoff(cutoff, prev_cumsum, U, cumsum) ==
    LET tmp == cutoff - prev_cumsum
    IN  Clamp(tmp - (tmp % U) + U + prev_cumsum, next_float(cutoff), cumsum)

\* The inner loop "while cutoff < individual_max_cutoff": the order of the mutant
RECURSIVE CountOrder(_, _, _)
CountOrder(cutoffs, j, bound) ==
    IF j <= Len(cutoffs) /\ cutoffs[j] < bound
    THEN 1 + CountOrder(cutoffs, j + 1, bound)
    ELSE 0

\* The loops of add_mutants over lineages ("for i in 0..len") and over the mutants of
\* one lineage ("while cutoff < expected_mutations_cumsum"); j is the index of the
\* current cutoff, w the work state [lineages, mutations, draws, panic]
RECURSIVE ForLineages(_, _, _, _, _, _, _)
RECURSIVE WhileMutants(_, _, _, _, _, _, _, _, _)
ForLineages(c, emc, cutoffs, i, cumsum, j, w) ==
    IF i > Len(emc) THEN {w}
    ELSE IF emc[i] = 0 THEN ForLineages(c, emc, cutoffs, i + 1, cumsum, j, w)
    ELSE LET cs == cumsum + emc[i]
         IN  IF cutoffs[j] < cs
             THEN WhileMutants(c, emc, cutoffs, i, cumsum, cs, j, w.lineages.rows[i], w)
             ELSE ForLineages(c, emc, cutoffs, i + 1, cs, j, w)

\* The loop over the mutants of one lineage taking the newest lineage of the store, not
\* the lineage being visited, as the parent of the mutant
WhileMutants_ParentIsNewest(c, emc, cutoffs, i, prev_cumsum, cs, j, lineage, w) ==
    LET bound == individual_max_cutoff(cutoffs[j], prev_cumsum, lineage.U, cs)
        mutant_order == CountOrder(cutoffs, j, bound)
        j2 == j + mutant_order
        cutoffs_exhausted == j2 > Len(cutoffs)
        newest == w.lineages.rows[Len(w.lineages.rows)]
    IN  UNION {
          IF mo.panic
          THEN {[w EXCEPT !.draws = @ \o mo.draws, !.panic = TRUE]}
          ELSE LET w1 == push_child(w, mo.mutant, newest, mutant_order)
                   w2 == [w1 EXCEPT !.lineages.rows[i].N = Max(@ - One, 0),
                                    !.draws = @ \o mo.draws]
               IN  IF cutoffs_exhausted THEN {w2}
                   ELSE IF cutoffs[j2] < cs
                   THEN WhileMutants(c, emc, cutoffs, i, prev_cumsum, cs, j2, lineage, w2)
                   ELSE ForLineages(c, emc, cutoffs, i + 1, cs, j2, w2)
          : mo \in new_mutant(newest, mutant_order, c, w.logging)}

WhileMutants(c, emc, cutoffs, i, prev_cumsum, cs, j, lineage, w) ==
    LET bound == individual_max_cutoff(cutoffs[j], prev_cumsum, lineage.U, cs)
        mutant_order == CountOrder(cutoffs, j, bound)
        j2 == j + mutant_order
        cutoffs_exhausted == j2 > Len(cutoffs)
    IN  UNION {
          IF mo.panic
          THEN {[w EXCEPT !.draws = @ \o mo.draws, !.panic = TRUE]}
          ELSE LET w1 == push_child(w, mo.mutant, lineage, mutant_order)
                   w2 == [w1 EXCEPT !.lineages.rows[i].N = Max(@ - One, 0),
                                    !.draws = @ \o mo.draws]
               IN  IF cutoffs_exhausted THEN {w2}
                   ELSE IF cutoffs[j2] < cs
                   THEN WhileMutants(c, emc, cutoffs, i, prev_cumsum, cs, j2, lineage, w2)
                   ELSE ForLineages(c, emc, cutoffs, i + 1, cs, j2, w2)
          : mo \in new_mutant(lineage, mutant_order, c, w.logging)}

\* add_mutants drawing its cutoffs from the closed interval [0, expected_mutations]
add_mutants_ClosedInterval(c, w, delta_N) ==
    LET emc == expected_mutation_counts(w.lineages, delta_N)
        expected_mutations == SeqSum(emc)
        outcomes ==
            IF expected_mutations < 0
            THEN {[w EXCEPT !.panic = TRUE]}
            ELSE
            UNION {
              IF num_mutations = 0
              THEN {Drew(w, <<0>>)}
              ELSE UNION {ForLineages(c, emc, SortAscending(cutoffs), 1, 0, 1,
                                      Drew(w, <<num_mutations>> \o cutoffs))
                          : cutoffs \in Tuples(num_mutations, 0..expected_mutations)}
              : num_mutations \in PoissonSupport(expected_mutations)}
    IN  {Called(o, [fn |-> "add_mutants", at |-> Len(w.draws),
                    entry |-> w.lineages, delta_N |-> delta_N,
                    draws |-> SubSeq(o.draws, Len(w.draws) + 1, Len(o.draws)),
                    exit |-> o.lineages, panic |-> o.panic]) : o \in outcomes}

add_mutants(c, w, delta_N) ==
    LET emc == expected_mutation_counts(w.lineages, delta_N)
        expected_mutations == SeqSum(emc)
        outcomes ==
            IF expected_mutations < 0
            THEN \* assert!(expected_mutations >= 0.0)
                 {[w EXCEPT !.panic = TRUE]}
            ELSE
            UNION {
              IF num_mutations = 0
              THEN {Drew(w, <<0>>)}
              ELSE UNION {ForLineages(c, emc, SortAscending(cutoffs), 1, 0, 1,
                                      Drew(w, <<num_mutations>> \o cutoffs))
                          : cutoffs \in Tuples(num_mutations, 0..(expected_mutations - 1))}
              : num_mutations \in PoissonSupport(expected_mutations)}
    IN  {Called(o, [fn |-> "add_mutants", at |-> Len(w.draws),
                    entry |-> w.lineages, delta_N |-> delta_N,
                    draws |-> SubSeq(o.draws, Len(w.draws) + 1, Len(o.draws)),
                    exit |-> o.lineages, panic |-> o.panic]) : o \in outcomes}

\* One Phase 1 doubling: delta_t = 1 / avg_W = sum_N / weighted_sum_W
growth_phase_1(c, w) ==
    IF w.panic THEN {w}
    ELSE IF w.lineages.rows = <<>> THEN add_mutants(c, w, <<>>)
    ELSE IF sum_N(w.lineages) = 0
    THEN \* avg_W = 0/0 = NaN makes every N NaN: add_mutants fails "expected_mutations >= 0.0"
         {[w EXCEPT !.panic = TRUE]}
    ELSE LET old_N == NColumn(w.lineages)
             grown == grow_lineages_inplace(w.lineages, sum_N(w.lineages),
                                            weighted_sum_W(w.lineages))
         IN  add_mutants(c, [w EXCEPT !.lineages = grown], old_N_to_delta_N(grown, old_N))

\* The bottleneck loop of growth_phase_2 over the lineages that existed before it;
\* acc = [data: the successor store, delta_N, draws]
RECURSIVE Bottleneck(_, _, _, _)
Bottleneck(grown, old_N, i, acc) ==
    IF i > Len(grown.rows) THEN {acc}
    ELSE LET lineage == grown.rows[i]
         IN  UNION {
               Bottleneck(grown, old_N, i + 1,
                 IF N_bottlenecked > 0
                 THEN Drew([data |-> push(acc.data, [lineage EXCEPT !.N = N_bottlenecked * One]),
                       delta_N |-> Append(acc.delta_N,
                                     (N_bottlenecked * One * (lineage.N - old_N[i])) \div lineage.N),
                       draws |-> acc.draws, logging |-> acc.logging], <<N_bottlenecked>>)
                 ELSE Drew(acc, <<N_bottlenecked>>))
               : N_bottlenecked \in 0..RoundDiv(lineage.N, One)}

\* Phase 2 adding the mutants of the grown lineages before the bottleneck
growth_phase_2_MutantsFirst(c, w) ==
    IF w.panic THEN {w}
    ELSE LET total == sum_N(w.lineages)
             target == c.max_pop_size * One
         IN  IF total = 0 \/ target < total
             THEN {Called([w EXCEPT !.panic = TRUE],
                          [fn |-> "growth_phase_2", at |-> Len(w.draws),
                           before |-> w.lineages, panic |-> TRUE])}
             ELSE LET k == FloorLog2(target, total)
                      q == Pow2(k) * total
                      num == (k * q + target - q) * total
                      den == q * weighted_sum_W(w.lineages)
                      old_N == NColumn(w.lineages)
                      grown == grow_lineages_inplace(w.lineages, num, den)
                  IN  UNION {
                        IF m.panic THEN {m}
                        ELSE {Called([m EXCEPT !.lineages = b.data, !.draws = @ \o b.draws],
                                     [fn |-> "growth_phase_2", at |-> Len(m.draws),
                                      before |-> w.lineages, panic |-> FALSE,
                                      delta_t |-> <<num, den>>,
                                      grown |-> m.lineages, N_bottlenecked |-> b.draws,
                                      bottlenecked |-> b.data, delta_N |-> b.delta_N])
                              : b \in Bottleneck(m.lineages, NColumn(m.lineages), 1,
                                                 [data |-> successor(m.lineages),
                                                  delta_N |-> <<>>, draws |-> <<>>,
                                                  logging |-> w.logging])}
                        : m \in add_mutants(c, [w EXCEPT !.lineages = grown],
                                            old_N_to_delta_N(grown, old_N))}

\* Phase 2 growing for no time, instead of failing, when delta_t is negative
growth_phase_2_ClampsDeltaT(c, w) ==
    IF w.panic THEN {w}
    ELSE LET total == sum_N(w.lineages)
             target == c.max_pop_size * One
         IN  IF total = 0
             THEN {Called([w EXCEPT !.panic = TRUE],
                          [fn |-> "growth_phase_2", at |-> Len(w.draws),
                           before |-> w.lineages, panic |-> TRUE])}
             ELSE LET k == IF target < total THEN 0 ELSE FloorLog2(target, total)
                      q == Pow2(k) * total
                      num == IF target < total THEN 0 ELSE (k * q + target - q) * total
                      den == q * weighted_sum_W(w.lineages)
                      old_N == NColumn(w.lineages)
                      grown == grow_lineages_inplace(w.lineages, num, den)
                  IN  UNION {add_mutants(c, Called([w EXCEPT !.lineages = b.data,
                                                             !.draws = @ \o b.draws],
                                                    [fn |-> "growth_phase_2",
                                                     at |-> Len(w.draws),
                                                     before |-> w.lineages, panic |-> FALSE,
                                                     delta_t |-> <<num, den>>,
                                                     grown |-> grown, N_bottlenecked |-> b.draws,
                                                     bottlenecked |-> b.data,
                                                     delta_N |-> b.delta_N]),
                                         b.delta_N)
                             : b \in Bottleneck(grown, old_N, 1,
                                                [data |-> successor(grown), delta_N |-> <<>>,
                                                 draws |-> <<>>, logging |-> w.logging])}

\* Phase 2: grow to Nmax, bottleneck, add the mutants of the survivors
\* delta_t = log2(Nmax / sum_N) / avg_W; NaN (empty store) and negative values fail the assert
growth_phase_2(c, w) ==
    IF w.panic THEN {w}
    ELSE LET total == sum_N(w.lineages)
             target == c.max_pop_size * One
         IN  IF total = 0 \/ target < total
             THEN {Called([w EXCEPT !.panic = TRUE],
                          [fn |-> "growth_phase_2", at |-> Len(w.draws),
                           before |-> w.lineages, panic |-> TRUE])}
             ELSE LET k == FloorLog2(target, total)
                      q == Pow2(k) * total
                      num == (k * q + target - q) * total
                      den == q * weighted_sum_W(w.lineages)
                      old_N == NColumn(w.lineages)
                      grown == grow_lineages_inplace(w.lineages, num, den)
                  IN  UNION {add_mutants(c, Called([w EXCEPT !.lineages = b.data,
                                                             !.draws = @ \o b.draws],
                                                    [fn |-> "growth_phase_2",
                                                     at |-> Len(w.draws),
                                                     before |-> w.lineages, panic |-> FALSE,
                                                     delta_t |-> <<num, den>>,
                                                     grown |-> grown, N_bottlenecked |-> b.draws,
                                                     bottlenecked |-> b.data,
                                                     delta_N |-> b.delta_N]),
                                         b.delta_N)
                             : b \in Bottleneck(grown, old_N, 1,
                                                [data |-> successor(grown), delta_N |-> <<>>,
                                                 draws |-> <<>>, logging |-> w.logging])}

----------------------------------------------------------------------------
(* Simulation driver: SimulationHandler, sim/mod.rs *)

\* SimulationHandler::new
SimulationHandler_new(track_mutations) ==
    [replicate |-> 0,
     transfer |-> 0,
     lineages |-> LineagesData_default,
     mutations |-> IF track_mutations THEN MutationsData_new ELSE None]

\* current_state marking the snapshot before the last one as the end of the replicate
current_state_EarlyEnd(c, s) ==
    IF s.replicate > 0
    THEN [is_some |-> TRUE,
          replicate |-> s.replicate,
          transfer |-> s.transfer,
          end_of_replicate |-> (s.transfer + 1 >= c.transfers),
          lineages |-> s.lineages,
          mutations |-> s.mutations]
    ELSE None

\* SimulationHandler::current_state
current_state(c, s) ==
    IF s.replicate > 0
    THEN [is_some |-> TRUE,
          replicate |-> s.replicate,
          transfer |-> s.transfer,
          end_of_replicate |-> (s.transfer = c.transfers),
          lineages |-> s.lineages,
          mutations |-> s.mutations]
    ELSE None

\* is_finished without the case of a run of zero replicates
is_finished_NoZeroReplicates(c, s) ==
    s.replicate = c.replicates /\ s.transfer = c.transfers

\* SimulationHandler::is_finished
is_finished(c, s) ==
    s.replicate = c.replicates /\ (s.replicate = 0 \/ s.transfer = c.transfers)

\* SimulationHandler::start_replicate
start_replicate(c, s) ==
    LET fresh == IF s.mutations.is_some THEN MutationsData_new ELSE None
        w == for_sim_config(c, fresh)
    IN  IF w.mutations.is_some
        THEN {[s EXCEPT !.lineages = w.lineages, !.mutations = m]
              : m \in update_sizes(w.mutations, w.lineages)}
        ELSE {[s EXCEPT !.lineages = w.lineages, !.mutations = w.mutations]}

\* The loop "for _ in 0..cfg.phase_1_doublings" of perform_transfer
RECURSIVE Phase1Times(_, _, _)
Phase1Times(c, ws, n) ==
    IF n = 0 THEN ws
    ELSE Phase1Times(c, UNION {growth_phase_1(c, w) : w \in ws}, n - 1)

\* SimulationHandler::perform_transfer: the set of work states [lineages, mutations, draws, panic]
perform_transfer(c, s, logging) ==
    LET start == [lineages |-> s.lineages, mutations |-> s.mutations,
                  draws |-> <<>>, calls |-> <<>>, panic |-> FALSE, logging |-> logging]
        grown == UNION {growth_phase_2(c, w)
                        : w \in Phase1Times(c, {start}, phase_1_doublings_required(c))}
    IN  UNION {IF w.panic \/ ~w.mutations.is_some
               THEN {w}
               ELSE {[w EXCEPT !.mutations = m] : m \in update_sizes(w.mutations, w.lineages)}
               : w \in grown}

\* advance starting one replicate too many
advance_ExtraReplicate(c, s) ==
    LET cur == current_state(c, s)
    IN  IF cur.is_some /\ ~cur.end_of_replicate
        THEN [is_some |-> TRUE, replicate |-> s.replicate, transfer |-> s.transfer + 1]
        ELSE IF s.replicate <= c.replicates
        THEN [is_some |-> TRUE, replicate |-> s.replicate + 1, transfer |-> 0]
        ELSE None

\* The first part of next_state: the new (replicate, transfer), or None when finished
advance(c, s) ==
    LET cur == current_state(c, s)
    IN  IF cur.is_some /\ ~cur.end_of_replicate
        THEN [is_some |-> TRUE, replicate |-> s.replicate, transfer |-> s.transfer + 1]
        ELSE IF s.replicate < c.replicates
        THEN [is_some |-> TRUE, replicate |-> s.replicate + 1, transfer |-> 0]
        ELSE None

\* Setting the transfer without clearing the pruned mutations
clear_pruned_KeepsPruned(m, t) ==
    IF m.is_some THEN set_transfer(m, t) ELSE m

\* Clearing the pruned mutations without telling the tracker the new transfer
clear_pruned_NoSetTransfer(m, t) ==
    IF m.is_some THEN [m EXCEPT !.pruned_muts = <<>>] ELSE m

\* "mutations.pruned_muts.clear(); mutations.set_transfer(self.transfer)"
clear_pruned(m, t) ==
    IF m.is_some THEN set_transfer([m EXCEPT !.pruned_muts = <<>>], t) ELSE m

\* Returning nothing after the pruned mutations were cleared
return_none_Cleared(s) ==
    [self |-> [s EXCEPT !.mutations = clear_pruned(@, s.transfer)],
     ret |-> None, draws |-> <<>>, calls |-> <<>>, panic |-> FALSE]

\* The last branch of next_state: "else { return None; }"
return_none(s) == [self |-> s, ret |-> None, draws |-> <<>>, calls |-> <<>>, panic |-> FALSE]

\* SimulationHandler::next_state: the set of outcomes [self, ret, draws, panic]
next_state(c, s, logging) ==
    LET adv == advance(c, s)
    IN  IF ~adv.is_some
        THEN {return_none(s)}
        ELSE LET s1 == [s EXCEPT !.replicate = adv.replicate,
                                 !.transfer = adv.transfer,
                                 !.mutations = clear_pruned(@, adv.transfer)]
             IN  IF s1.transfer = 0
                 THEN {[self |-> s2, ret |-> current_state(c, s2), draws |-> <<>>,
                        calls |-> <<>>, panic |-> FALSE] : s2 \in start_replicate(c, s1)}
                 ELSE {LET s2 == [s1 EXCEPT !.lineages = w.lineages, !.mutations = w.mutations]
                       IN  [self |-> s2, ret |-> current_state(c, s2), draws |-> w.draws,
                            calls |-> w.calls, panic |-> w.panic]
                       : w \in perform_transfer(c, s1, logging)}

----------------------------------------------------------------------------
(* Output loop: run_simulations_inner, cli/src/lib.rs *)

MutationIds(ms) == {ms[k].id : k \in DOMAIN ms}

\* The output loop writing the active mutations for every snapshot
RecordedNow_ActiveAlways(state) ==
    IF state.mutations.is_some
    THEN [id \in MutationIds(state.mutations.pruned_muts) \cup DOMAIN state.mutations.muts |->
            Cardinality({k \in DOMAIN state.mutations.pruned_muts :
                            state.mutations.pruned_muts[k].id = id})
            + (IF id \in DOMAIN state.mutations.muts THEN 1 ELSE 0)]
    ELSE <<>>

\* record_pruned_mutations, and record_active_mutations at the end of a replicate:
\* the ids of the mutations written for one snapshot, with multiplicity
RecordedNow(state) ==
    IF state.mutations.is_some
    THEN [id \in MutationIds(state.mutations.pruned_muts)
                 \cup (IF state.end_of_replicate THEN DOMAIN state.mutations.muts ELSE {}) |->
            Cardinality({k \in DOMAIN state.mutations.pruned_muts :
                            state.mutations.pruned_muts[k].id = id})
            + (IF state.end_of_replicate /\ id \in DOMAIN state.mutations.muts THEN 1 ELSE 0)]
    ELSE <<>>

\* Add the records of one snapshot to the records written so far
Record(rec, state) ==
    LET now == RecordedNow(state)
        keys == {<<state.replicate, id>> : id \in DOMAIN now}
    IN  [key \in DOMAIN rec \cup keys |->
            (IF key \in DOMAIN rec THEN rec[key] ELSE 0)
            + (IF key \in keys THEN now[key[2]] ELSE 0)]

----------------------------------------------------------------------------
(* The state machine *)

Self == [replicate |-> replicate, transfer |-> transfer,
         lineages |-> lineages, mutations |-> mutations]

AllSimConfigs ==
    {[replicates |-> r, transfers |-> t, markers |-> m, dilution_factor |-> d,
      beneficial_mutation_rate |-> u[1], neutral_mutation_rate |-> u[2],
      deleterious_mutation_rate |-> u[3],
      initial_beneficial_mutation_size |-> 1,
      diminishing_returns_epistasis_strength |-> g,
      max_pop_size |-> n] :
        r \in 0..MaxReplicates, t \in 0..MaxTransfers, m \in 1..MaxMarkers,
        d \in DilutionFactors, u \in MutationRates, g \in EpistasisStrengths,
        n \in MaxPopSizes}

\* The number of growth phases of a whole run in which mutants can arise
MutatingPhases(c) ==
    IF total_mutation_rate(c) = 0 THEN 0
    ELSE c.replicates * c.transfers * (phase_1_doublings_required(c) + 1)

\* A run is explored when the number of mutation events it can have is within the bound
SimConfigs == {c \in AllSimConfigs : MutatingPhases(c) * MaxK <= MaxMutationEvents}

\* The configurations two drivers are compared on: short runs, with at most one growth
\* phase in which mutants arise, and then from one founder
TwinConfigs ==
    {c \in SimConfigs : /\ c.replicates * (c.transfers + 1) <= MaxTwinSnapshots
                        /\ MutatingPhases(c) * c.markers <= 1}

InitDriver ==
    /\ \E track_mutations \in BOOLEAN :
         /\ replicate = SimulationHandler_new(track_mutations).replicate
         /\ transfer = SimulationHandler_new(track_mutations).transfer
         /\ lineages = SimulationHandler_new(track_mutations).lineages
         /\ mutations = SimulationHandler_new(track_mutations).mutations
    /\ aborted = FALSE
    /\ result = "init"
    /\ history = <<>>
    /\ recorded = <<>>
    /\ pruned_earlier = {}
    /\ ancestry = <<>>

Init == cfg \in SimConfigs /\ InitDriver /\ twin = [on |-> FALSE] /\ cli = None /\ calls = None

\* Two drivers built from the same configuration, seed and track_mutations flag
InitTwin ==
    /\ cfg \in TwinConfigs /\ InitDriver /\ cli = None /\ calls = None
    /\ twin = [on |-> TRUE, self |-> Self, ret |-> None, panic |-> FALSE]

\* One call of next_state by the output loop, and the same call on the twin driver,
\* whose generator produces the same draws
PollDriver ==
    /\ ~aborted
    /\ result # "unbuilt"
    /\ LET outcomes == next_state(cfg, Self, twin.on \/ calls.is_some)
           twin_outcomes == IF twin.on THEN next_state(cfg, twin.self, TRUE) ELSE {}
       IN  \E o \in outcomes :
             /\ replicate' = o.self.replicate
             /\ transfer' = o.self.transfer
             /\ lineages' = o.self.lineages
             /\ mutations' = o.self.mutations
             /\ aborted' = o.panic
             /\ result' = IF o.panic THEN "panic" ELSE IF o.ret.is_some THEN "some" ELSE "none"
             /\ history' = IF ~o.panic /\ o.ret.is_some
                           THEN Append(history, <<o.ret.replicate, o.ret.transfer,
                                                  o.ret.end_of_replicate>>)
                           ELSE history
             /\ recorded' = IF ~o.panic /\ o.ret.is_some THEN Record(recorded, o.ret)
                            ELSE recorded
             /\ pruned_earlier' =
                    IF o.panic \/ ~o.ret.is_some \/ ~mutations.is_some THEN pruned_earlier
                    ELSE IF o.ret.transfer = 0 THEN {}
                    ELSE pruned_earlier \cup MutationIds(mutations.pruned_muts)
             /\ ancestry' =
                    IF o.panic \/ ~o.ret.is_some \/ ~o.self.mutations.is_some THEN ancestry
                    ELSE LET ms == o.self.mutations
                             tracked == [id \in DOMAIN ms.muts |-> ms.muts[id].background_id]
                             pruned == [id \in MutationIds(ms.pruned_muts) |->
                                           LET k == CHOOSE k \in DOMAIN ms.pruned_muts :
                                                        ms.pruned_muts[k].id = id
                                           IN  ms.pruned_muts[k].background_id]
                         IN  IF o.ret.transfer = 0 THEN tracked @@ pruned
                             ELSE tracked @@ pruned @@ ancestry
             /\ IF twin.on
                THEN \E ot \in twin_outcomes :
                        /\ ot.draws = o.draws
                        /\ ot.panic = o.panic
                        /\ twin' = [on |-> TRUE, self |-> ot.self, ret |-> ot.ret,
                                    panic |-> ot.panic]
                ELSE twin' = twin
             /\ calls' = IF calls.is_some THEN Some(o.calls) ELSE calls
    /\ UNCHANGED cfg

\* The driver polled by a caller that is not the command line process
NextState == PollDriver /\ UNCHANGED cli

\* Configurations of runs that only found their replicates (no transfer, no mutation), over
\* dilution factors whose reciprocal is not a binary fraction and larger populations
FounderDilutionFactors == {2, 3, 10, 49, 100}

FounderPopSizes == {4, 49, 147, 1000, 500000000}

FounderConfigs ==
    {[replicates |-> r, transfers |-> 0, markers |-> m, dilution_factor |-> d,
      beneficial_mutation_rate |-> 0, neutral_mutation_rate |-> 0,
      deleterious_mutation_rate |-> 0,
      initial_beneficial_mutation_size |-> 1,
      diminishing_returns_epistasis_strength |-> 1,
      max_pop_size |-> n] :
        r \in 0..MaxReplicates, m \in 1..MaxMarkers,
        d \in FounderDilutionFactors, n \in FounderPopSizes}

InitFounders ==
    cfg \in FounderConfigs /\ InitDriver /\ twin = [on |-> FALSE] /\ cli = None /\ calls = None

----------------------------------------------------------------------------
(* The command line process: cli/src/lib.rs, cli/src/bin/steps.rs, io/input_parsing.rs *)
(* The output files are taken to be writable.                                          *)

\* env!("CARGO_PKG_VERSION") and the version of another release
get_current_version_str == "current"
Versions == {get_current_version_str, "other"}

\* Dilution factors on both sides of the assertion and of the halves of a doubling
CliDilutionFactors == {0, 1, 2, 3, 4, 5, 6, 11, 12, 22, 23, 100}

\* Rates with a negative component, of negative, zero and positive sum
CliMutationRates == {<<0, 0, 0>>, <<-1, 0, 0>>, <<0, 0, -1>>, <<1, -1, 0>>, <<2, -1, 0>>}

\* The options of a simulate command
CliConfigs ==
    {[replicates |-> r, transfers |-> t, markers |-> m, dilution_factor |-> d,
      beneficial_mutation_rate |-> u[1], neutral_mutation_rate |-> u[2],
      deleterious_mutation_rate |-> u[3],
      initial_beneficial_mutation_size |-> 1,
      diminishing_returns_epistasis_strength |-> 1,
      max_pop_size |-> n] :
        r \in 0..MaxReplicates, t \in 0..1, m \in 1..MaxMarkers,
        d \in CliDilutionFactors, u \in CliMutationRates, n \in MaxPopSizes}

\* The configurations found in the files given to a reproduce command
ReproduceConfigs ==
    {c \in CliConfigs : /\ c.replicates = 1 /\ c.markers = 1
                        /\ c.dilution_factor \in {1, 2}
                        /\ total_mutation_rate(c) = 0 /\ c.beneficial_mutation_rate = 0}

\* A line of an input file: the metadata header of some version, the configuration header,
\* or a line that is neither
HeaderLines ==
    {[kind |-> "metadata", version |-> v] : v \in Versions}
    \cup {[kind |-> "sim_cfg", sim_cfg |-> c] : c \in ReproduceConfigs}
    \cup {[kind |-> "other"]}

\* The input of a reproduce command: no readable file, or the first lines of the file
Inputs == {None} \cup {Some(lines) : lines \in Tuples(0, HeaderLines) \cup Tuples(1, HeaderLines)
                                             \cup Tuples(2, HeaderLines)}

Ok(v) == [is_ok |-> TRUE, value |-> v]
Err(e) == [is_ok |-> FALSE, error |-> e]

\* extract_headers, returning the configuration of the headers
extract_headers(source) ==
    IF Len(source) < 1 THEN Err("MissingHeaders")
    ELSE IF source[1].kind # "metadata" THEN Err("Json")
    ELSE IF source[1].version # get_current_version_str THEN Err("IncompatibleVersion")
    ELSE IF Len(source) < 2 THEN Err("MissingHeaders")
    ELSE IF source[2].kind # "sim_cfg" THEN Err("Json")
    ELSE Ok(source[2].sim_cfg)

\* extract_sim_config_from_path: File::open, then extract_sim_config
extract_sim_config_from_path(input) ==
    IF ~input.is_some THEN Err("Io") ELSE extract_headers(input.value)

\* The process before main has run its command
InitCli ==
    /\ cfg = None
    /\ replicate = 0 /\ transfer = 0
    /\ lineages = LineagesData_default
    /\ mutations = None
    /\ aborted = FALSE
    /\ result = "unbuilt"
    /\ history = <<>>
    /\ recorded = <<>>
    /\ pruned_earlier = {}
    /\ ancestry = <<>>
    /\ twin = [on |-> FALSE]
    /\ calls = None
    /\ \/ \E c \in CliConfigs :
            cli = [is_some |-> TRUE, command |-> "simulate", input |-> None,
                   sim_cfg |-> Some(c), error |-> None, exit_code |-> None]
       \/ \E input \in Inputs :
            cli = [is_some |-> TRUE, command |-> "reproduce", input |-> input,
                   sim_cfg |-> None, error |-> None, exit_code |-> None]

\* reproduce_simulations up to its call of run_simulations; on an error report_error, after
\* which reproduce_simulations, run_cli_config and main return
ReproduceSimulations ==
    /\ cli.is_some /\ cli.command = "reproduce"
    /\ ~cli.sim_cfg.is_some /\ ~cli.exit_code.is_some
    /\ LET extracted == extract_sim_config_from_path(cli.input)
       IN  cli' = IF extracted.is_ok
                  THEN [cli EXCEPT !.sim_cfg = Some(extracted.value)]
                  ELSE [cli EXCEPT !.error = Some(extracted.error), !.exit_code = Some(0)]
    /\ UNCHANGED <<cfg, replicate, transfer, lineages, mutations, aborted, result,
                   history, recorded, pruned_earlier, ancestry, twin, calls>>

\* run_simulations_inner up to its loop: SimulationHandler::new, which panics when
\* InternalSimConfig::new does; a panic ends the process with status 101
NewHandler ==
    /\ cli.is_some /\ cli.sim_cfg.is_some /\ ~cli.exit_code.is_some
    /\ result = "unbuilt"
    /\ cfg' = cli.sim_cfg.value
    /\ IF InternalSimConfig_new(cli.sim_cfg.value).panic
       THEN /\ aborted' = TRUE
            /\ result' = "panic"
            /\ cli' = [cli EXCEPT !.exit_code = Some(101)]
            /\ UNCHANGED <<replicate, transfer, lineages, mutations>>
       ELSE \E track_mutations \in BOOLEAN :
              /\ replicate' = SimulationHandler_new(track_mutations).replicate
              /\ transfer' = SimulationHandler_new(track_mutations).transfer
              /\ lineages' = SimulationHandler_new(track_mutations).lineages
              /\ mutations' = SimulationHandler_new(track_mutations).mutations
              /\ aborted' = FALSE
              /\ result' = "init"
              /\ UNCHANGED cli
    /\ UNCHANGED <<history, recorded, pruned_earlier, ancestry, twin, calls>>

\* One turn of the loop "while let Some(state) = simulation_handler.next_state()": a panic
\* ends the process with status 101; on None the loop ends and main returns
RunSimulations ==
    /\ cli.is_some /\ ~cli.exit_code.is_some
    /\ PollDriver
    /\ cli' = IF aborted' THEN [cli EXCEPT !.exit_code = Some(101)]
              ELSE IF result' = "none" THEN [cli EXCEPT !.exit_code = Some(0)]
              ELSE cli

NextCli == ReproduceSimulations \/ NewHandler \/ RunSimulations

\* The configurations the calls of the mechanics are traced on: one replicate, mutations
\* with Phase 2 as the only growth phase, and one founder in the longest runs
CallConfigs ==
    {c \in SimConfigs : /\ c.replicates <= 1
                        /\ c.dilution_factor > 2 => total_mutation_rate(c) = 0
                        /\ c.transfers > 1 => c.markers = 1}

\* The driver with the calls of the mechanics of each step traced
InitCalls ==
    cfg \in CallConfigs /\ InitDriver /\ twin = [on |-> FALSE] /\ cli = None /\ calls = Some(<<>>)

Next == NextState

Spec == Init /\ [][Next]_vars

SpecCalls == InitCalls /\ [][Next]_vars

SpecCli == InitCli /\ [][NextCli]_vars

SpecFounders == InitFounders /\ [][Next]_vars

SpecTwin == InitTwin /\ [][Next]_vars

----------------------------------------------------------------------------
(* Properties of the driver *)

Tracking == ~aborted /\ replicate > 0 /\ mutations.is_some

\* The k-th snapshot of a run: replicates 1..R, each with transfers 0..T
ExpectedSnapshot(k) ==
    <<((k - 1) \div (cfg.transfers + 1)) + 1, (k - 1) % (cfg.transfers + 1)>>

\* C1: the calls of next_state return the snapshots (1,0), (1,1), ..., (1,T), (2,0), ...,
\* (R,T) in this order, R*(T+1) in all; nothing is returned before the last of them and
\* nothing but nothing after it.
C1_SnapshotOrder ==
    /\ [](/\ Len(history) <= cfg.replicates * (cfg.transfers + 1)
          /\ \A k \in DOMAIN history :
                <<history[k][1], history[k][2]>> = ExpectedSnapshot(k)
          /\ (result = "some" => <<replicate, transfer>> = ExpectedSnapshot(Len(history)))
          /\ (result = "none" => Len(history) = cfg.replicates * (cfg.transfers + 1)))
    /\ [][result = "none" => result' = "none"]_vars

C1_Witness ==
    /\ result = "none"
    /\ cfg.replicates = MaxReplicates /\ cfg.transfers = MaxTransfers
    /\ Len(history) = MaxReplicates * (MaxTransfers + 1)

\* C8: is_finished is true exactly when the next call of next_state returns nothing.
C8_FinishedIffNothing == [][is_finished(cfg, Self) <=> (result' = "none")]_vars

C8_Witness == result = "none" /\ is_finished(cfg, Self) /\ cfg.replicates = 0 /\ cfg.transfers > 0

\* C9: a call of next_state that returns nothing changes no field of the driver.
C9_NothingChangesNothing ==
    [][result' = "none" => UNCHANGED <<replicate, transfer, lineages, mutations>>]_vars

C9_Witness ==
    /\ result = "none" /\ Tracking
    /\ mutations.pruned_muts # <<>> /\ DOMAIN mutations.muts # {}

\* C10: a snapshot is marked end_of_replicate exactly when its transfer is the configured
\* number of transfers, and a replicate has one such snapshot once it is complete and none
\* before.
EndsOfReplicate(r) == {k \in DOMAIN history : history[k][1] = r /\ history[k][3]}

C10_EndOfReplicate ==
    /\ \A k \in DOMAIN history : history[k][3] <=> (history[k][2] = cfg.transfers)
    /\ \A r \in 1..cfg.replicates :
          Cardinality(EndsOfReplicate(r)) =
              IF r < replicate \/ (r = replicate /\ transfer = cfg.transfers /\ ~aborted)
              THEN 1 ELSE 0

C10_Witness ==
    /\ cfg.transfers = 0 /\ Len(history) = 2
    /\ history[1] = <<1, 0, TRUE>> /\ history[2] = <<2, 0, TRUE>>

----------------------------------------------------------------------------
(* Properties of the mutation tracker *)

PrunedIds == MutationIds(mutations.pruned_muts)

\* The mutations the tracker holds, tracked or pruned in this step, by id
Held ==
    [id \in DOMAIN mutations.muts \cup PrunedIds |->
        IF id \in DOMAIN mutations.muts THEN mutations.muts[id]
        ELSE mutations.pruned_muts[CHOOSE k \in DOMAIN mutations.pruned_muts :
                                        mutations.pruned_muts[k].id = id]]

\* The ids on the chain of background ids from id, as far as map holds them
RECURSIVE Background(_, _)
Background(map, id) ==
    IF id \in DOMAIN map THEN {id} \cup Background(map, map[id].background_id) ELSE {}

\* The summed size of the lineages (from row i on) whose chain over map contains id
RECURSIVE Carried(_, _, _)
Carried(map, id, i) ==
    IF i > Len(lineages.rows) THEN 0
    ELSE (IF id \in Background(map, lineages.rows[i].id) THEN lineages.rows[i].N ELSE 0)
         + Carried(map, id, i + 1)

Reached(map, id) == \E i \in DOMAIN lineages.rows : id \in Background(map, lineages.rows[i].id)

\* C3: at transfer t, the entry t - first_transfer of the sizes of every tracked mutation is
\* the summed size of the lineages whose chain of background ids, followed through the
\* tracked mutations, contains the mutation.
C3_Provenance ==
    Tracking =>
        \A id \in DOMAIN mutations.muts :
            LET m == mutations.muts[id]
                k == transfer - m.first_transfer + 1
            IN  /\ k \in DOMAIN m.N
                /\ m.N[k] = Carried(mutations.muts, id, 1)

C3_Witness ==
    /\ Tracking /\ result = "some"
    /\ \E id \in DOMAIN mutations.muts :
          /\ Len(mutations.muts[id].N) >= 2
          /\ \E i, j \in DOMAIN lineages.rows :
                /\ i # j
                /\ lineages.rows[i].N > 0 /\ lineages.rows[j].N > 0
                /\ id \in Background(mutations.muts, lineages.rows[i].id)
                /\ id \in Background(mutations.muts, lineages.rows[j].id)

\* C4: tracked and pruned mutations are disjoint, every id handed out in the replicate is
\* tracked, pruned in this step or pruned in an earlier step, and a mutation pruned in an
\* earlier step is not tracked.
C4_PruningPartition ==
    Tracking =>
        /\ DOMAIN mutations.muts \cap PrunedIds = {}
        /\ 1..lineages.unique_id_counter = DOMAIN mutations.muts \cup PrunedIds \cup pruned_earlier
        /\ pruned_earlier \cap DOMAIN mutations.muts = {}

C4_Witness ==
    /\ Tracking /\ result = "some"
    /\ DOMAIN mutations.muts # {} /\ PrunedIds # {} /\ pruned_earlier # {}

\* C5: writing the pruned mutations of every snapshot and the tracked mutations of the
\* snapshot ending a replicate writes every mutation of the replicate once: none twice, and
\* all of them by the end of the replicate.
C5_RecordedOnce ==
    Tracking =>
        /\ \A key \in DOMAIN recorded : recorded[key] = 1
        /\ \A id \in 1..lineages.unique_id_counter :
              (<<replicate, id>> \in DOMAIN recorded)
                  <=> (id \notin DOMAIN mutations.muts \/ transfer = cfg.transfers)

C5_Witness ==
    /\ Tracking /\ result = "some"
    /\ replicate = 2 /\ transfer = cfg.transfers /\ cfg.transfers > 0
    /\ \E id \in DOMAIN mutations.muts : id > cfg.markers
    /\ \E id \in PrunedIds : TRUE
    /\ \E key \in DOMAIN recorded : key[1] = 1 /\ key[2] > cfg.markers

\* C6: a step that returns a snapshot leaves on_transfer at the snapshot's transfer, gives
\* the mutations registered in the step that transfer as their first, and leaves in
\* pruned_muts the mutations the step stopped tracking, each once, and no other.
C6_PrunedThisStep ==
    [][(result' = "some" /\ mutations'.is_some) =>
        LET tracked == IF transfer' = 0 THEN {} ELSE DOMAIN mutations.muts
            registered == (IF transfer' = 0 THEN 1 ELSE lineages.unique_id_counter + 1)
                              ..lineages'.unique_id_counter
            pruned == MutationIds(mutations'.pruned_muts)
        IN  /\ mutations'.on_transfer = transfer'
            /\ pruned = (tracked \cup registered) \ DOMAIN mutations'.muts
            /\ Len(mutations'.pruned_muts) = Cardinality(pruned)
            /\ \A k \in DOMAIN mutations'.pruned_muts :
                  mutations'.pruned_muts[k].id \in registered
                      => mutations'.pruned_muts[k].first_transfer = transfer'
            /\ \A id \in DOMAIN mutations'.muts \cap registered :
                  mutations'.muts[id].first_transfer = transfer']_vars

C6_Witness ==
    /\ Tracking /\ result = "some"
    /\ transfer > 0 /\ PrunedIds # {} /\ pruned_earlier # {}
    /\ \E id \in DOMAIN mutations.muts : mutations.muts[id].first_transfer = transfer

\* C7: update_sizes prunes a mutation exactly when no lineage reached it (just_updated is
\* false) or its last size is the size of the population; the others stay tracked.
C7_PrunedIffExtinctOrFixed ==
    Tracking =>
        \A id \in DOMAIN Held :
            LET m == Held[id]
                reached == Reached(Held, id)
                fixed == reached /\ m.N[Len(m.N)] = sum_N(lineages)
            IN  /\ m.just_updated <=> reached
                /\ (id \in PrunedIds) <=> (~reached \/ fixed)
                /\ (id \in DOMAIN mutations.muts) <=> ~(~reached \/ fixed)

C7_Witness ==
    /\ Tracking /\ result = "some"
    /\ DOMAIN mutations.muts # {}
    /\ \E k, j \in DOMAIN mutations.pruned_muts :
          /\ mutations.pruned_muts[k].just_updated
          /\ ~mutations.pruned_muts[j].just_updated

----------------------------------------------------------------------------
(* Reproducibility *)

\* C2: two drivers built from the same configuration, seed and track_mutations flag return,
\* call by call, snapshots equal field by field: replicate, transfer, end_of_replicate, every
\* lineage column, the tracked mutations and the pruned mutations.
C2_TwinSnapshotsIdentical ==
    (twin.on /\ ~aborted) => current_state(cfg, twin.self) = current_state(cfg, Self)

----------------------------------------------------------------------------
(* Properties of the lineage store *)

Running == ~aborted /\ replicate > 0

RowIds(L) == {L.rows[i].id : i \in DOMAIN L.rows}

\* C11: within a replicate lineage ids are handed out 1, 2, 3, ... by one counter that no
\* bottleneck resets: the stored lineages have ids in 1..unique_id_counter, increasing along
\* the store, each above its parent's id; a step never lowers the counter, gives the lineages
\* it creates ids above the counter it found, and every other lineage it leaves is one it
\* found; a replicate starts with ids 1..markers.
C11_IdsIncrease ==
    /\ [](Running =>
            /\ \A i \in DOMAIN lineages.rows :
                  /\ lineages.rows[i].id \in 1..lineages.unique_id_counter
                  /\ lineages.rows[i].parent_id < lineages.rows[i].id
            /\ \A i, j \in DOMAIN lineages.rows :
                  i < j => lineages.rows[i].id < lineages.rows[j].id)
    /\ [][(result' = "some") =>
            IF transfer' = 0
            THEN /\ lineages'.unique_id_counter = cfg.markers
                 /\ RowIds(lineages') = 1..cfg.markers
            ELSE /\ lineages'.unique_id_counter >= lineages.unique_id_counter
                 /\ \A i \in DOMAIN lineages'.rows :
                       lineages'.rows[i].id <= lineages.unique_id_counter
                           => \E j \in DOMAIN lineages.rows :
                                 /\ lineages.rows[j].id = lineages'.rows[i].id
                                 /\ lineages.rows[j].parent_id = lineages'.rows[i].parent_id]_vars

C11_Witness ==
    /\ Running /\ result = "some" /\ transfer > 0
    /\ Len(lineages.rows) >= 2
    /\ lineages.unique_id_counter > cfg.markers + 1
    /\ lineages.unique_id_counter \in RowIds(lineages)
    /\ \E id \in 1..cfg.markers : id \notin RowIds(lineages)

\* The stored lineage with the given id
RowOf(id) == lineages.rows[CHOOSE i \in DOMAIN lineages.rows : lineages.rows[i].id = id]

RECURSIVE Founder(_)
Founder(id) ==
    IF id \notin DOMAIN Held THEN 0
    ELSE IF Held[id].background_id = 0 THEN id
    ELSE Founder(Held[id].background_id)

Markers(L) == {L.rows[i].marker : i \in DOMAIN L.rows}

\* C13: every stored lineage carries a marker in 1..markers, the marker of its founder: a
\* founder m has marker m, a lineage has the marker of its parent and of the founder its
\* chain of mutations leads to, and a step keeps the marker of every lineage it keeps and
\* brings back no marker that was lost.
C13_MarkerConservation ==
    /\ [](Running =>
            \A i \in DOMAIN lineages.rows :
                LET l == lineages.rows[i]
                IN  /\ l.marker \in 1..cfg.markers
                    /\ (l.parent_id = 0) => (l.marker = l.id)
                    /\ (l.parent_id \in RowIds(lineages)) => (l.marker = RowOf(l.parent_id).marker)
                    /\ (mutations.is_some /\ Founder(l.id) # 0) => (l.marker = Founder(l.id)))
    /\ [][(result' = "some" /\ transfer' > 0) =>
            /\ Markers(lineages') \subseteq Markers(lineages)
            /\ \A i \in DOMAIN lineages'.rows : \A j \in DOMAIN lineages.rows :
                  lineages'.rows[i].id = lineages.rows[j].id
                      => lineages'.rows[i].marker = lineages.rows[j].marker]_vars

C13_Witness ==
    /\ Tracking /\ result = "some" /\ transfer > 0
    /\ \E i, j \in DOMAIN lineages.rows :
          /\ lineages.rows[i].marker = 2 /\ lineages.rows[i].parent_id = 2
          /\ lineages.rows[j].marker = 1 /\ lineages.rows[j].parent_id = 0

\* C14: the snapshot of transfer 0 holds exactly `markers` lineages, the m-th with id m,
\* marker m, parent_id 0, accumulated_muts 1, W = 1, U = Ub + Un + Ud and
\* N = round(Nmax / D / markers), in every replicate.
C14_FounderSnapshot ==
    (Running /\ transfer = 0) =>
        /\ Len(lineages.rows) = cfg.markers
        /\ lineages.unique_id_counter = cfg.markers
        /\ \A m \in 1..cfg.markers :
              /\ lineages.rows[m].id = m
              /\ lineages.rows[m].marker = m
              /\ lineages.rows[m].parent_id = 0
              /\ lineages.rows[m].accumulated_muts = 1
              /\ lineages.rows[m].W = 1
              /\ lineages.rows[m].U = cfg.beneficial_mutation_rate + cfg.neutral_mutation_rate
                                          + cfg.deleterious_mutation_rate
              /\ lineages.rows[m].N
                    = RoundDiv(cfg.max_pop_size, cfg.dilution_factor * cfg.markers) * One

----------------------------------------------------------------------------
(* Properties of the construction of the driver *)

\* The command line process has built its driver from a configuration that passes the
\* assertion on the dilution factor
Built == cli.is_some /\ result # "unbuilt" /\ ~InternalSimConfig_new(cfg).panic

\* C15: for every dilution factor D >= 2 the driver is built with, the Phase 1 doubling
\* count p is floor(log2 D) - 1 when the fractional part of log2 D is below 0.5 (D is
\* below 2^floor * sqrt 2) and floor(log2 D) otherwise; p is never below 0; the growth
\* left for Phase 2 satisfies 0.5 <= log2 D - p < 1.5, that is 2^(2p+1) <= D^2 < 2^(2p+3);
\* D = 2 gives 0, D = 4 gives 1, D = 100 gives 6
C15_Phase1Doublings ==
    Built =>
        LET D == cfg.dilution_factor
            p == phase_1_doublings_required(cfg)
            floor == CHOOSE k \in 0..D : Pow2(k) <= D /\ D < Pow2(k + 1)
        IN  /\ D >= 2
            /\ p = IF D * D < 2 * Pow2(floor) * Pow2(floor) THEN floor - 1 ELSE floor
            /\ p >= 0
            /\ Pow2(2 * p + 1) <= D * D /\ D * D < Pow2(2 * p + 3)
            /\ (D = 2 => p = 0) /\ (D = 4 => p = 1) /\ (D = 100 => p = 6)

\* A driver built with D = 100, past the half of its seventh doubling, has returned a snapshot
C15_Witness ==
    /\ Built /\ result = "some"
    /\ cfg.dilution_factor = 100 /\ phase_1_doublings_required(cfg) = 6

\* The configuration the command line process runs, once it has one
HasConfig == cli.is_some /\ cli.sim_cfg.is_some

\* C18: a configuration with a dilution factor below 2 is rejected when the driver is
\* constructed: the construction panics (the process dies with status 101), whatever the
\* other options, so no lineage is ever founded and no snapshot ever returned for it.
C18_DilutionFactorRejected ==
    (HasConfig /\ cli.sim_cfg.value.dilution_factor < 2) =>
        /\ result \in {"unbuilt", "panic"}
        /\ result = "panic" => aborted /\ cli.exit_code = Some(101)
        /\ replicate = 0 /\ lineages = LineagesData_default
        /\ history = <<>> /\ recorded = <<>>

\* The construction has panicked for a run of no replicate
C18_Witness ==
    /\ HasConfig /\ cfg = cli.sim_cfg.value
    /\ cfg.dilution_factor < 2 /\ cfg.replicates = 0
    /\ aborted /\ result = "panic"

\* One of the three mutation rates of a configuration is negative
NegativeRate(c) ==
    \/ c.beneficial_mutation_rate < 0
    \/ c.neutral_mutation_rate < 0
    \/ c.deleterious_mutation_rate < 0

\* C19: a configuration with a negative mutation rate (any of Ub, Un, Ud below 0) is
\* immediately fatal: the driver never returns a snapshot for it.
C19_NegativeRateFatal ==
    (HasConfig /\ NegativeRate(cli.sim_cfg.value)) => history = <<>>

----------------------------------------------------------------------------
(* Properties of the reproduce command *)

\* The input file can be read but has fewer than two header lines, or its first line is
\* the metadata of another version
BadHeaders(input) ==
    /\ input.is_some
    /\ \/ Len(input.value) < 2
       \/ /\ input.value[1].kind = "metadata"
          /\ input.value[1].version # get_current_version_str

\* C20: when the input of a reproduce run has fewer than two header lines or the metadata
\* of another version, header extraction returns an error (IncompatibleVersion whatever
\* the configuration line is, the version being compared first), no driver is constructed
\* and no step runs, and the process reports the error and exits with a non-zero status.
C20_ReproduceInputErrors ==
    (cli.is_some /\ cli.command = "reproduce" /\ BadHeaders(cli.input)) =>
        /\ ~extract_headers(cli.input.value).is_ok
        /\ (/\ Len(cli.input.value) >= 1
            /\ cli.input.value[1].kind = "metadata"
            /\ cli.input.value[1].version # get_current_version_str)
              => extract_headers(cli.input.value).error = "IncompatibleVersion"
        /\ ~cli.sim_cfg.is_some
        /\ result = "unbuilt" /\ replicate = 0 /\ history = <<>>
        /\ cli.exit_code.is_some =>
              /\ cli.error = Some(extract_headers(cli.input.value).error)
              /\ cli.exit_code.value # 0

----------------------------------------------------------------------------
(* Properties of the mutation mechanics *)

ZeroRates ==
    /\ cfg.beneficial_mutation_rate = 0
    /\ cfg.neutral_mutation_rate = 0
    /\ cfg.deleterious_mutation_rate = 0

\* C16: with Ub = Un = Ud = 0 no mutation ever occurs, over all transfers and replicates:
\* the expected mutation count of any growth of the stored lineages is 0 and the Poisson
\* draw with mean 0 can only be 0; no mutation type can be sampled; the id counter stays
\* at markers once a replicate is founded and the store never holds more than markers
\* lineages, all of them founders with W = 1; the tracker holds founders' entries only.
C16_NoMutationWithoutRates ==
    ZeroRates =>
        /\ PoissonSupport(SeqSum(expected_mutation_counts(lineages, NColumn(lineages)))) = {0}
        /\ MutationTypes(cfg) = {}
        /\ lineages.unique_id_counter = IF replicate > 0 THEN cfg.markers ELSE 0
        /\ Len(lineages.rows) <= cfg.markers
        /\ \A i \in DOMAIN lineages.rows :
              /\ lineages.rows[i].W = 1
              /\ lineages.rows[i].id <= cfg.markers
              /\ lineages.rows[i].parent_id = 0
              /\ lineages.rows[i].accumulated_muts = 1
        /\ mutations.is_some => DOMAIN Held \subseteq 1..cfg.markers
        /\ \A k \in DOMAIN recorded : k[2] <= cfg.markers

\* The last snapshot of the last replicate of a run without mutation rates, with a
\* lineage that went through every growth and bottleneck
C16_Witness ==
    /\ ZeroRates /\ result = "some"
    /\ replicate = MaxReplicates /\ transfer = MaxTransfers
    /\ \E i \in DOMAIN lineages.rows : lineages.rows[i].N > 0

\* The run's configuration with a positive deleterious rate
WithDeleterious == [cfg EXCEPT !.deleterious_mutation_rate = 1]

\* The draws of a new mutant include the type Deleterious (a size drawn is never that value)
DrewDeleterious(o) ==
    /\ TypeIndex("Deleterious") \notin MutationSizes
    /\ \E k \in DOMAIN o.draws : o.draws[k] = TypeIndex("Deleterious")

\* Deleterious is the only mutation type of the run
OnlyDeleterious ==
    /\ cfg.deleterious_mutation_rate > 0
    /\ cfg.beneficial_mutation_rate = 0
    /\ cfg.neutral_mutation_rate = 0

\* C17: deleterious mutations fail explicitly.  Whatever stored lineage mutates and whatever
\* the order of the mutant, a new mutant for which the type Deleterious is sampled ends in a
\* panic, at that draw; a step that panics returns no snapshot and records nothing; so in a
\* run whose only mutation type is Deleterious no snapshot holds a mutant lineage or a
\* tracked or recorded mutation other than the founders'.
C17_DeleteriousAborts ==
    /\ [](/\ \A i \in DOMAIN lineages.rows : \A order \in 1..MaxK :
               \A o \in new_mutant(lineages.rows[i], order, WithDeleterious, TRUE) :
                  DrewDeleterious(o) =>
                      /\ o.panic
                      /\ o.draws[Len(o.draws)] = TypeIndex("Deleterious")
          /\ aborted => result = "panic"
          /\ OnlyDeleterious =>
               /\ lineages.unique_id_counter <= cfg.markers
               /\ \A i \in DOMAIN lineages.rows : lineages.rows[i].parent_id = 0
               /\ mutations.is_some => DOMAIN Held \subseteq 1..cfg.markers
               /\ \A k \in DOMAIN recorded : k[2] <= cfg.markers)
    /\ [][aborted' => history' = history /\ recorded' = recorded]_vars

\* A run with a deleterious rate died in the panic of a step after it had returned snapshots
C17_Witness ==
    /\ OnlyDeleterious /\ aborted /\ result = "panic"
    /\ Len(history) >= 2
    /\ \E i \in DOMAIN lineages.rows :
          \E o \in new_mutant(lineages.rows[i], 1, cfg, TRUE) : DrewDeleterious(o)

----------------------------------------------------------------------------
(* Properties of add_mutants, on the traced calls of the last step *)

\* The traced calls of one function
CallsOf(fn) ==
    IF calls.is_some
    THEN {calls.value[k] : k \in {j \in DOMAIN calls.value : calls.value[j].fn = fn}}
    ELSE {}

\* The completed calls of add_mutants
AddMutantsCalls == {a \in CallsOf("add_mutants") : ~a.panic}

\* K, the Poisson draw of a call, and the cutoffs drawn after it, in ascending order
NumMutations(a) == IF a.draws = <<>> THEN 0 ELSE a.draws[1]
Cutoffs(a) == SortAscending(SubSeq(a.draws, 2, 1 + NumMutations(a)))

\* The lineages a call pushed, and the indexes at entry of the parent of one of them
Pushed(a) == SubSeq(a.exit.rows, Len(a.entry.rows) + 1, Len(a.exit.rows))
ParentIndexes(a, r) == {i \in DOMAIN a.entry.rows : a.entry.rows[i].id = r.parent_id}
ParentIndex(a, r) == CHOOSE i \in ParentIndexes(a, r) : TRUE

\* The order a mutant was pushed with: what it accumulated beyond its parent
Order(a, r) == r.accumulated_muts - a.entry.rows[ParentIndex(a, r)].accumulated_muts

\* C21: in every completed call of add_mutants that draws K > 0 cutoffs, every pushed mutant
\* has an order >= 1 and the orders of the pushed mutants sum to K (each cutoff belongs to
\* exactly one mutant), so at most K mutants are pushed; a call that draws 0 pushes none.
C21_CutoffsAttributedOnce ==
    \A a \in AddMutantsCalls :
        /\ Len(a.exit.rows) >= Len(a.entry.rows)
        /\ \A k \in DOMAIN Pushed(a) :
              /\ ParentIndexes(a, Pushed(a)[k]) # {}
              /\ Order(a, Pushed(a)[k]) >= 1
        /\ SeqSum([k \in DOMAIN Pushed(a) |-> Order(a, Pushed(a)[k])]) = NumMutations(a)
        /\ Len(Pushed(a)) <= NumMutations(a)

\* A call drew two cutoffs and pushed two mutants of order 1
C21_Witness ==
    \E a \in AddMutantsCalls : NumMutations(a) = 2 /\ Len(Pushed(a)) = 2

\* E, the expected mutation counts of a call, and the start of the interval of lineage i
Expected(a) == expected_mutation_counts(a.entry, a.delta_N)
IntervalStart(a, i) == SeqSum(SubSeq(Expected(a), 1, i - 1))

\* The window a cutoff x falls in: <<i, j>> with x in the interval of lineage i and
\* IntervalStart + j * U[i] <= x < IntervalStart + (j + 1) * U[i]
WindowOf(a, x) ==
    LET i == CHOOSE i \in DOMAIN a.entry.rows :
                 IntervalStart(a, i) <= x /\ x < IntervalStart(a, i) + Expected(a)[i]
    IN  <<i, (x - IntervalStart(a, i)) \div a.entry.rows[i].U>>

\* A sequence without the repetitions of its elements, in the order of first occurrence
RECURSIVE Distinct(_)
Distinct(seq) ==
    IF seq = <<>> THEN <<>>
    ELSE LET front == Distinct(SubSeq(seq, 1, Len(seq) - 1))
             last == seq[Len(seq)]
         IN  IF \E k \in DOMAIN front : front[k] = last THEN front ELSE Append(front, last)

\* The windows the cutoffs of a call fall in, in ascending order
Windows(a) == Distinct([k \in DOMAIN Cutoffs(a) |-> WindowOf(a, Cutoffs(a)[k])])

\* ceil(x / y) for x >= 0, y > 0
CeilDiv(x, y) == (x + y - 1) \div y

IdColumn(L) == [i \in DOMAIN L.rows |-> L.rows[i].id]

\* C23: add_mutants only visits the lineages that existed when the call started.  In every
\* call, completed or not, the lineages of the entry store stay where they were, and the
\* parent of every pushed mutant is one of them (its index is below the length at entry),
\* so no mutant pushed in the call is the parent of another one.
C23_OnlyEntryLineagesMutate ==
    \A a \in CallsOf("add_mutants") :
        /\ Len(a.exit.rows) >= Len(a.entry.rows)
        /\ SubSeq(IdColumn(a.exit), 1, Len(a.entry.rows)) = IdColumn(a.entry)
        /\ \A k \in DOMAIN Pushed(a) :
              /\ \E i \in 1..Len(a.entry.rows) : a.entry.rows[i].id = Pushed(a)[k].parent_id
              /\ \A n \in DOMAIN Pushed(a) : Pushed(a)[k].parent_id # Pushed(a)[n].id

\* A call pushed two mutants into a store that already held a mutant of an earlier step
C23_Witness ==
    \E a \in AddMutantsCalls :
        /\ Len(Pushed(a)) = 2
        /\ \E i \in DOMAIN a.entry.rows : a.entry.rows[i].parent_id > 0

\* The number of mutants a call pushed with the entry lineage i as their parent
MutantsOf(a, i) ==
    Cardinality({k \in DOMAIN Pushed(a) : Pushed(a)[k].parent_id = a.entry.rows[i].id})

----------------------------------------------------------------------------
(* Properties of Phase 2, on the traced calls of the last step *)

\* The calls of growth_phase_2 that passed the assertion on delta_t
Phase2Calls == {g \in CallsOf("growth_phase_2") : ~g.panic}

\* The grown lineages from index i on whose bottleneck draw was positive, each with its
\* draw as its N, in the order of the grown store
RECURSIVE SurvivorsFrom(_, _)
SurvivorsFrom(g, i) ==
    IF i > Len(g.grown.rows) THEN <<>>
    ELSE (IF g.N_bottlenecked[i] > 0
          THEN <<[g.grown.rows[i] EXCEPT !.N = g.N_bottlenecked[i] * One]>>
          ELSE <<>>) \o SurvivorsFrom(g, i + 1)

IdsOf(L) == {L.rows[i].id : i \in DOMAIN L.rows}

ZeroIds(L) == {L.rows[i].id : i \in {j \in DOMAIN L.rows : L.rows[j].N = 0}}

\* C25: the bottleneck draws once for every grown lineage, a number N_b <= round(N); the
\* successor store holds exactly the lineages with N_b > 0, in their order, each with
\* N = N_b and every other field as it was.  A lineage that enters a transfer with N = 0 is
\* not in the next snapshot.  A store leaves the bottleneck without entries of size 0, the
\* founders have none, and a call of add_mutants makes an entry 0 only by taking mutants of it.
C25_BottleneckKeepsPositiveDraws ==
    /\ [](/\ \A g \in Phase2Calls :
                /\ Len(g.N_bottlenecked) = Len(g.grown.rows)
                /\ \A i \in DOMAIN g.grown.rows :
                      /\ g.N_bottlenecked[i] <= RoundDiv(g.grown.rows[i].N, One)
                      /\ (g.grown.rows[i].N = 0) <=> (g.before.rows[i].N = 0)
                /\ g.bottlenecked.rows = SurvivorsFrom(g, 1)
                /\ ZeroIds(g.bottlenecked) = {}
          /\ \A a \in CallsOf("add_mutants") :
                \A i \in DOMAIN a.entry.rows :
                    (a.exit.rows[i].N = 0 /\ a.entry.rows[i].N # 0) => MutantsOf(a, i) >= 1
          /\ (replicate > 0 /\ transfer = 0) => ZeroIds(lineages) = {})
    /\ [][(~aborted' /\ replicate' = replicate /\ transfer' = transfer + 1)
            => ZeroIds(lineages) \cap IdsOf(lineages') = {}]_vars

\* The positions in the traced calls of the calls of Phase 2 that passed the assertion
Phase2Positions ==
    IF calls.is_some
    THEN {k \in DOMAIN calls.value :
            calls.value[k].fn = "growth_phase_2" /\ ~calls.value[k].panic}
    ELSE {}

\* C26: Phase 2 draws once for every lineage it found, and the draws of its mutations start
\* right after the last of them: its call of add_mutants is the next call and the last of
\* the step, and works on the bottlenecked store.  Every mutant of that call has a parent
\* in the bottlenecked store, and when the step succeeds the mutant is in the snapshot,
\* with N = 1.
C26_MutantsAfterBottleneck ==
    \A k \in Phase2Positions :
        LET g == calls.value[k]
        IN  /\ Len(g.N_bottlenecked) = Len(g.before.rows)
            /\ Len(calls.value) = k + 1
            /\ LET a == calls.value[k + 1]
               IN  /\ a.fn = "add_mutants"
                   /\ a.at = g.at + Len(g.N_bottlenecked)
                   /\ a.entry = g.bottlenecked
                   /\ \A j \in DOMAIN Pushed(a) :
                         /\ Pushed(a)[j].parent_id \in IdsOf(g.bottlenecked)
                         /\ ~aborted =>
                              \E i \in DOMAIN lineages.rows :
                                  lineages.rows[i] = Pushed(a)[j] /\ lineages.rows[i].N = One

\* Phase 2 lost a lineage at the bottleneck and made a mutant of a survivor
C26_Witness ==
    /\ ~aborted
    /\ \E k \in Phase2Positions :
          /\ k + 1 \in DOMAIN calls.value
          /\ Len(calls.value[k].bottlenecked.rows) < Len(calls.value[k].before.rows)
          /\ calls.value[k + 1].fn = "add_mutants"
          /\ Len(Pushed(calls.value[k + 1])) >= 1

\* C27: a call of Phase 2 on a store of positive total size and positive mean fitness fails
\* when the total exceeds Nmax, and the step is then aborted; otherwise it grows the store
\* for a time delta_t >= 0, so that no lineage shrinks.  An aborted step adds no snapshot.
C27_Phase2NeverShrinks ==
    /\ [](\A g \in CallsOf("growth_phase_2") :
             (sum_N(g.before) > 0 /\ weighted_sum_W(g.before) > 0) =>
                 IF sum_N(g.before) > cfg.max_pop_size * One
                 THEN g.panic /\ aborted /\ result = "panic"
                 ELSE /\ ~g.panic
                      /\ g.delta_t[1] >= 0 /\ g.delta_t[2] > 0
                      /\ \A i \in DOMAIN g.before.rows :
                            g.grown.rows[i].N >= g.before.rows[i].N
                      /\ sum_N(g.grown) >= sum_N(g.before))
    /\ [][aborted' => (history' = history /\ recorded' = recorded /\ result' = "panic")]_vars

\* A step was aborted in Phase 2 by a store larger than Nmax
C27_Witness ==
    /\ aborted
    /\ \E g \in CallsOf("growth_phase_2") :
          g.panic /\ sum_N(g.before) > cfg.max_pop_size * One

----------------------------------------------------------------------------
(* Properties of the fitness of mutants *)

\* The sizes of the mutations a sequence of draws of new_mutant stands for, in the order
\* drawn: a beneficial mutation draws its type and its size, a neutral one its type only
\* (size 0)
RECURSIVE SizesDrawn(_)
SizesDrawn(draws) ==
    IF draws = <<>> THEN <<>>
    ELSE IF draws[1] = TypeIndex("Beneficial")
    THEN <<draws[2]>> \o SizesDrawn(SubSeq(draws, 3, Len(draws)))
    ELSE <<0>> \o SizesDrawn(Tail(draws))

\* The sizes of the mutations of the k-th mutant a call pushed
SizesOf(a, k) ==
    LET sizes == SizesDrawn(SubSeq(a.draws, 2 + NumMutations(a), Len(a.draws)))
        before == SeqSum([j \in 1..(k - 1) |-> Order(a, Pushed(a)[j])])
    IN  SubSeq(sizes, before + 1, before + Order(a, Pushed(a)[k]))

RECURSIVE SeqProduct(_)
SeqProduct(seq) == IF seq = <<>> THEN 1 ELSE seq[1] * SeqProduct(Tail(seq))

AllMutations ==
    IF mutations.is_some
    THEN {mutations.muts[id] : id \in DOMAIN mutations.muts}
         \cup {mutations.pruned_muts[k] : k \in DOMAIN mutations.pruned_muts}
    ELSE {}

\* C28: without deleterious mutations and with g >= 0, a mutant has the W of its parent
\* times (1 + s) and the lambda of its parent times (1 + g s) for each of its mutations of
\* size s >= 0: neither is lower than the parent's, and both are the parent's when all its
\* mutations are neutral.  Every lineage has W >= 1, and every registered mutation has
\* delta_W >= 0 and delta_U = 0.
C28_FitnessNeverDecreases ==
    (cfg.deleterious_mutation_rate = 0 /\ cfg.diminishing_returns_epistasis_strength >= 0) =>
        /\ \A a \in AddMutantsCalls :
              \A k \in DOMAIN Pushed(a) :
                  LET mutant == Pushed(a)[k]
                      parent == a.entry.rows[ParentIndex(a, mutant)]
                      sizes == SizesOf(a, k)
                      g == cfg.diminishing_returns_epistasis_strength
                  IN  /\ Len(sizes) = Order(a, mutant)
                      /\ \A j \in DOMAIN sizes : sizes[j] >= 0
                      /\ mutant.W = parent.W * SeqProduct([j \in DOMAIN sizes |-> 1 + sizes[j]])
                      /\ mutant.lambda =
                             parent.lambda * SeqProduct([j \in DOMAIN sizes |-> 1 + g * sizes[j]])
                      /\ mutant.W >= parent.W /\ mutant.lambda >= parent.lambda
                      /\ (\A j \in DOMAIN sizes : sizes[j] = 0) =>
                             (mutant.W = parent.W /\ mutant.lambda = parent.lambda)
        /\ \A i \in DOMAIN lineages.rows : lineages.rows[i].W >= 1
        /\ \A m \in AllMutations : m.delta_W >= 0 /\ m.delta_U = 0

\* A call pushed a mutant of a neutral mutation, as fit as its parent, and a mutant fitter
\* than its parent, and the tracker holds a mutation with delta_W > 0
C28_Witness ==
    /\ cfg.deleterious_mutation_rate = 0
    /\ \E m \in AllMutations : m.delta_W > 0
    /\ \E a \in AddMutantsCalls :
          /\ \E k \in DOMAIN Pushed(a) :
                Pushed(a)[k].W = a.entry.rows[ParentIndex(a, Pushed(a)[k])].W
          /\ \E k \in DOMAIN Pushed(a) :
                Pushed(a)[k].W > a.entry.rows[ParentIndex(a, Pushed(a)[k])].W

----------------------------------------------------------------------------
(* Properties of the size histories of the tracked mutations *)

\* C29: a mutation registered in a step has the transfer of that step as its first_transfer
\* (0 for the founders) and keeps it.  In the snapshot of transfer t a tracked mutation has
\* t - first_transfer + 1 entries in N; a mutation pruned in the step has as many when it is
\* fixed (its last entry is the total) and one fewer, possibly none, when it is extinct.
C29_OneSizePerTransfer ==
    /\ [](Tracking =>
            /\ \A id \in DOMAIN mutations.muts :
                  /\ mutations.muts[id].first_transfer <= transfer
                  /\ Len(mutations.muts[id].N) = transfer - mutations.muts[id].first_transfer + 1
            /\ \A k \in DOMAIN mutations.pruned_muts :
                  LET m == mutations.pruned_muts[k]
                  IN  /\ m.first_transfer <= transfer
                      /\ IF m.just_updated
                         THEN /\ Len(m.N) = transfer - m.first_transfer + 1
                              /\ m.N[Len(m.N)] = sum_N(lineages)
                         ELSE Len(m.N) = transfer - m.first_transfer)
    /\ [][Tracking' =>
            \A m \in AllMutations' :
                IF transfer' > 0 /\ \E old \in AllMutations : old.id = m.id
                THEN \A old \in AllMutations :
                         old.id = m.id => m.first_transfer = old.first_transfer
                ELSE m.first_transfer = transfer']_vars

\* The snapshot of a transfer after the first holds a founder with two sizes, a mutation of
\* this transfer with one size, and a pruned mutation of this transfer without any size
C29_Witness ==
    /\ Tracking
    /\ transfer > 0
    /\ \E id \in DOMAIN mutations.muts :
          mutations.muts[id].first_transfer = 0 /\ Len(mutations.muts[id].N) = transfer + 1
    /\ \E id \in DOMAIN mutations.muts :
          mutations.muts[id].first_transfer = transfer /\ Len(mutations.muts[id].N) = 1
    /\ \E k \in DOMAIN mutations.pruned_muts :
          mutations.pruned_muts[k].first_transfer = transfer /\ mutations.pruned_muts[k].N = <<>>

----------------------------------------------------------------------------
(* Properties of the walk of update_sizes along the background ids *)

\* The ancestral chain of a mutation: its id, the id of its background, and so on, as far as
\* the mutations registered in the replicate go
RECURSIVE ChainFrom(_)
ChainFrom(id) ==
    IF id \in DOMAIN ancestry THEN <<id>> \o ChainFrom(ancestry[id]) ELSE <<>>

\* C30: in every snapshot of a tracking run, for every lineage of the store, the tracked
\* mutations of its ancestral chain are the first ones of the chain: a mutation of the chain
\* that is not tracked has no tracked ancestor.
C30_TrackedRunUnbroken ==
    Tracking =>
        \A i \in DOMAIN lineages.rows :
            LET chain == ChainFrom(lineages.rows[i].id)
            IN  /\ chain # <<>>
                /\ \A p \in DOMAIN chain : \A q \in DOMAIN chain :
                       (p < q /\ chain[p] \notin DOMAIN mutations.muts)
                           => chain[q] \notin DOMAIN mutations.muts

\* A lineage whose own mutation is tracked and the next one is not, and a lineage with
\* ancestors whose own mutation is not tracked
C30_Witness ==
    /\ Tracking
    /\ \E i \in DOMAIN lineages.rows :
          LET chain == ChainFrom(lineages.rows[i].id)
          IN  /\ Len(chain) >= 2
              /\ chain[1] \in DOMAIN mutations.muts
              /\ chain[2] \notin DOMAIN mutations.muts
    /\ \E i \in DOMAIN lineages.rows :
          LET chain == ChainFrom(lineages.rows[i].id)
          IN  Len(chain) >= 2 /\ chain[1] \notin DOMAIN mutations.muts
====
